---- MODULE Spec2Model ----
(***************************************************************************)
(* USB mass storage (bulk-only transport) command layer of                 *)
(* USBMassStorage.py: the CBW parser, the SCSI command dispatcher and its  *)
(* handlers, the write-session state of USBMassStorageInterface, and the   *)
(* DiskImage backing store.                                                *)
(*                                                                         *)
(* Bytes are integers 0..255, a Python bytes object is a sequence of       *)
(* bytes, and Python index i is TLA+ index i+1.  "x << k" is x * 2^k,      *)
(* "x >> k" is x \div 2^k (both floor), "x & (2^k - 1)" is x % 2^k, and     *)
(* the "|" of values shifted to disjoint bit positions is their sum.       *)
(* An optional value (None or a value) is a sequence of length 0 or 1.     *)
(***************************************************************************)
EXTENDS Integers, Sequences, FiniteSets, TLC

VARIABLES
    is_write_in_progress,   \* USBMassStorageInterface.is_write_in_progress
    write_cbw,              \* USBMassStorageInterface.write_cbw (optional)
    write_base_lba,         \* USBMassStorageInterface.write_base_lba
    write_length,           \* USBMassStorageInterface.write_length
    write_data,             \* USBMassStorageInterface.write_data
    disk_image,             \* the DiskImage object: size, block_size, image, closed
    raised,                 \* the uncaught exception that ended the process, or "none"
    \* what the last entry point call was given and did:
    last_op,                \* the entry point
    host_fields,            \* the fields the host built the delivery from (optional)
    data_in,                \* the delivery: handle_data_available's argument
    was_writing,            \* is_write_in_progress when the call began
    cbw_in,                 \* the CommandBlockWrapper parsed from the delivery (optional)
    status_out,             \* the status the handler returned (optional)
    to_host,                \* the ep_to_host.send calls, in order
    sector_reads,           \* the addresses given to get_sector_data, in order
    sector_writes,          \* the put_sector_data calls, in order
    flushed,                \* the call flushed the image (image.flush())
    control_sent            \* the control message sent (optional)

vars == <<is_write_in_progress, write_cbw, write_base_lba, write_length,
          write_data, disk_image, raised, last_op, host_fields, data_in,
          was_writing, cbw_in, status_out, to_host, sector_reads,
          sector_writes, flushed, control_sent>>

-----------------------------------------------------------------------------
(* Python values *)

None == <<>>

Some(v) == <<v>>

\* truth value of "if response:" for an optional bytes object
Truthy(r) == r # None /\ Len(r[1]) > 0

Min(a, b) == IF a < b THEN a ELSE b

Max(a, b) == IF a < b THEN b ELSE a

\* bytes([v] * n); a negative n gives the empty bytes object
Repeat(v, n) == [i \in 1..Max(n, 0) |-> v]

\* b[lo:hi] for non-negative lo, hi: the bounds are clipped to the length
Slice(b, lo, hi) ==
    LET l == Min(lo, Len(b))
        h == Min(hi, Len(b))
    IN  IF h <= l THEN <<>> ELSE [i \in 1..(h - l) |-> b[l + i]]

\* b[lo:]
SliceFrom(b, lo) == Slice(b, lo, Len(b))

Ord(c) ==
    CASE c = "U" -> 85
      [] c = "S" -> 83
      [] c = "B" -> 66
      [] c = "C" -> 67

-----------------------------------------------------------------------------
(* USBMassStorageInterface constants *)

STATUS_OKAY == 0

STATUS_FAILURE == 2

STATUS_INCOMPLETE == -1

\* opcodes registered by _initialize_scsi_commands, with their handlers
commands ==
    [op \in {0, 3, 18, 26, 90, 30, 35, 37, 40, 42, 54} |->
        CASE op = 0  -> "handle_ignored_event"
          [] op = 3  -> "handle_sense"
          [] op = 18 -> "handle_inquiry"
          [] op = 26 -> "handle_mode_sense"
          [] op = 90 -> "handle_mode_sense"
          [] op = 30 -> "handle_ignored_event"
          [] op = 35 -> "handle_get_format_capacity"
          [] op = 37 -> "handle_get_read_capacity"
          [] op = 40 -> "handle_read"
          [] op = 42 -> "handle_write"
          [] op = 54 -> "handle_ignored_event"]

-----------------------------------------------------------------------------
(* DiskImage *)

\* Content of the image file when it is opened: byte at offset off.
FileByte(off) == (off + 7 * (off \div 512)) % 256

\* DiskImage.__init__: the mmap is kept as the bytes written over the file's
\* content (a function from offsets to bytes), so images of any size fit.
DiskImage(st_size, block_size) ==
    [size |-> st_size, block_size |-> block_size,
     image |-> [off \in {} |-> 0], closed |-> FALSE]

\* self.image[off]
ImageByte(disk, off) ==
    IF off \in DOMAIN disk.image THEN disk.image[off] ELSE FileByte(off)

\* DiskImage.close
close(disk) == [disk EXCEPT !.closed = TRUE]

\* get_sector_count returning the number of sectors instead of the last LBA
get_sector_count_literal(disk) == disk.size \div disk.block_size

\* DiskImage.get_sector_count; int(a / b) of non-negative a is a \div b
get_sector_count(disk) == (disk.size \div disk.block_size) - 1

\* DiskImage.get_sector_data: an mmap slice, clipped to the size of the map
get_sector_data(disk, address) ==
    LET block_start == address * disk.block_size
        block_end   == (address + 1) * disk.block_size
        lo == Min(block_start, disk.size)
        hi == Min(block_end, disk.size)
    IN  IF hi <= lo THEN <<>>
        ELSE [i \in 1..(hi - lo) |-> ImageByte(disk, lo + i - 1)]

\* DiskImage.put_sector_data: an mmap slice assignment raises IndexError when
\* the value's length differs from the (clipped) slice's; then a flush.
put_sector_data(disk, address, data) ==
    LET block_start == address * disk.block_size
        block_end   == (address + 1) * disk.block_size
        lo == Min(block_start, disk.size)
        hi == Max(lo, Min(block_end, disk.size))
        value == Slice(data, 0, disk.block_size)
    IN  IF Len(value) # hi - lo
        THEN [raised |-> "IndexError", disk |-> disk, flushed |-> FALSE]
        ELSE [raised |-> "none",
              disk |-> [disk EXCEPT !.image =
                          [off \in (DOMAIN disk.image) \cup (lo..(hi - 1)) |->
                              IF off \in lo..(hi - 1) THEN value[off - lo + 1]
                              ELSE disk.image[off]]],
              flushed |-> TRUE]

-----------------------------------------------------------------------------
(* CommandBlockWrapper *)

NoCBW ==
    [signature |-> <<>>, tag |-> <<>>, data_transfer_length |-> 0,
     flags |-> 0, lun |-> 0, cb_length |-> 0, cb |-> <<>>]

\* the parser with the command cut to cb_length bytes (bytestring[15:15+cb_length])
CommandBlockWrapper_truncating(bytestring) ==
    IF Len(bytestring) < 15
    THEN [raised |-> "IndexError", cbw |-> NoCBW]
    ELSE [raised |-> "none",
          cbw |-> [signature |-> Slice(bytestring, 0, 4),
                   tag       |-> Slice(bytestring, 4, 8),
                   data_transfer_length |->
                         bytestring[9]
                       + bytestring[10] * 256
                       + bytestring[11] * 65536
                       + bytestring[12] * 16777216,
                   flags     |-> bytestring[13],
                   lun       |-> bytestring[14] % 16,
                   cb_length |-> bytestring[15] % 32,
                   cb        |-> Slice(bytestring, 15, 15 + (bytestring[15] % 32))]]

\* CommandBlockWrapper.__init__: indexing bytestring[8..14] raises IndexError
\* on fewer than 15 bytes; the slices never raise.
CommandBlockWrapper(bytestring) ==
    IF Len(bytestring) < 15
    THEN [raised |-> "IndexError", cbw |-> NoCBW]
    ELSE [raised |-> "none",
          cbw |-> [signature |-> Slice(bytestring, 0, 4),
                   tag       |-> Slice(bytestring, 4, 8),
                   data_transfer_length |->
                         bytestring[9]
                       + bytestring[10] * 256
                       + bytestring[11] * 65536
                       + bytestring[12] * 16777216,
                   flags     |-> bytestring[13],
                   lun       |-> bytestring[14] % 16,
                   cb_length |-> bytestring[15] % 32,
                   cb        |-> SliceFrom(bytestring, 15)]]

-----------------------------------------------------------------------------
(* USBMassStorageInterface: the handlers.  Each takes the interface's        *)
(* write-session fields (self) and the disk image, and returns the status,  *)
(* the response, the new fields, the sends and sector accesses it made, and *)
(* the exception it raised, if any.                                         *)

\* cbw.cb[i] raises IndexError unless the command block has more than i bytes
HasCb(cbw, i) == Len(cbw.cb) > i

Cb(cbw, i) == cbw.cb[i + 1]

Send(kind, data, blocking) == [kind |-> kind, data |-> data, blocking |-> blocking]

Return(self, disk, status, response) ==
    [raised |-> "none", status |-> status, response |-> response,
     self |-> self, disk |-> disk, sent |-> <<>>, reads |-> <<>>, writes |-> <<>>,
     flushed |-> FALSE]

Raise(self, disk, exception) ==
    [raised |-> exception, status |-> STATUS_INCOMPLETE, response |-> None,
     self |-> self, disk |-> disk, sent |-> <<>>, reads |-> <<>>, writes |-> <<>>,
     flushed |-> FALSE]

\* the unknown-command handler returning 0x01 as its failure status
handle_unknown_command_status_01(self, disk, cbw) ==
    IF cbw.data_transfer_length > 0
    THEN Return(self, disk, 1, Some(Repeat(0, cbw.data_transfer_length)))
    ELSE Return(self, disk, 1, None)

\* the unknown-command handler without its zero-filled response
handle_unknown_command_no_payload(self, disk, cbw) ==
    Return(self, disk, STATUS_FAILURE, None)

handle_unknown_command(self, disk, cbw) ==
    IF cbw.data_transfer_length > 0
    THEN Return(self, disk, STATUS_FAILURE, Some(Repeat(0, cbw.data_transfer_length)))
    ELSE Return(self, disk, STATUS_FAILURE, None)

handle_ignored_event(self, disk, cbw) ==
    Return(self, disk, STATUS_OKAY, None)

handle_sense(self, disk, cbw) ==
    Return(self, disk, STATUS_OKAY,
           Some(<<112, 0, 255, 0, 0, 0, 0, 10, 0, 0, 0, 0, 255, 255,
                  0, 0, 0, 0, 0, 0, 0, 0, 0>>))

\* b'GoodFET '
GoodFET == <<71, 111, 111, 100, 70, 69, 84, 32>>

\* struct.unpack(">BBBHB", cbw.cb[0:6]) raises struct.error unless the slice
\* has 6 bytes; bytes([0] * diff) is empty for diff <= 0.
handle_inquiry(self, disk, cbw) ==
    IF Len(Slice(cbw.cb, 0, 6)) # 6 THEN Raise(self, disk, "struct.error")
    ELSE
    LET fixed == <<0, 0, 5, 2, 20, 0, 0, 0>> \o GoodFET \o GoodFET
                 \o Repeat(32, 8) \o <<48, 46, 48, 49>>
        diff  == cbw.data_transfer_length - Len(fixed)
    IN  Return(self, disk, STATUS_OKAY, Some(fixed \o Repeat(0, diff)))

\* Mode Sense comparing the whole of command byte 2 with 0x3f
handle_mode_sense_unmasked(self, disk, cbw) ==
    IF ~HasCb(cbw, 2) THEN Raise(self, disk, "IndexError")
    ELSE
    LET page == Cb(cbw, 2)
    IN  IF page # 63
        THEN Return(self, disk, STATUS_OKAY, Some(<<7, 0, 0, 0, 0, 0, 0, 0>>))
        ELSE Return(self, disk, STATUS_OKAY, Some(<<7, 0, 0, 0, 0, 0, 0, 28>>))

handle_mode_sense(self, disk, cbw) ==
    IF ~HasCb(cbw, 2) THEN Raise(self, disk, "IndexError")
    ELSE
    LET page == Cb(cbw, 2) % 64
    IN  IF page # 63
        THEN Return(self, disk, STATUS_OKAY, Some(<<7, 0, 0, 0, 0, 0, 0, 0>>))
        ELSE Return(self, disk, STATUS_OKAY, Some(<<7, 0, 0, 0, 0, 0, 0, 28>>))

handle_get_format_capacity(self, disk, cbw) ==
    Return(self, disk, STATUS_OKAY, Some(<<0, 0, 0, 8, 0, 0, 16, 0, 16, 0, 2, 0>>))

handle_get_read_capacity(self, disk, cbw) ==
    LET lastlba == get_sector_count(disk)
    IN  Return(self, disk, STATUS_OKAY,
               Some(<<(lastlba \div 16777216) % 256,
                      (lastlba \div 65536) % 256,
                      (lastlba \div 256) % 256,
                      lastlba % 256,
                      0, 0, 2, 0>>))

\* Read(10) decoding its LBA from command bytes 1..4, as handle_write does
handle_read_lba_as_write(self, disk, cbw) ==
    IF ~HasCb(cbw, 8) THEN Raise(self, disk, "IndexError")
    ELSE
    LET base_lba   == Cb(cbw, 1) * 16777216 + Cb(cbw, 2) * 65536
                      + Cb(cbw, 3) * 256 + Cb(cbw, 4)
        num_blocks == Cb(cbw, 7) * 256 + Cb(cbw, 8)
    IN  [Return(self, disk, STATUS_OKAY, None) EXCEPT
            !.reads = [block_num \in 1..num_blocks |-> base_lba + block_num - 1],
            !.sent  = [block_num \in 1..num_blocks |->
                        Send("sector",
                             get_sector_data(disk, base_lba + block_num - 1),
                             FALSE)]]

handle_read(self, disk, cbw) ==
    IF ~HasCb(cbw, 8) THEN Raise(self, disk, "IndexError")
    ELSE
    LET base_lba   == Cb(cbw, 2) * 16777216 + Cb(cbw, 3) * 65536
                      + Cb(cbw, 4) * 256 + Cb(cbw, 5)
        num_blocks == Cb(cbw, 7) * 256 + Cb(cbw, 8)
    IN  [Return(self, disk, STATUS_OKAY, None) EXCEPT
            !.reads = [block_num \in 1..num_blocks |-> base_lba + block_num - 1],
            !.sent  = [block_num \in 1..num_blocks |->
                        Send("sector",
                             get_sector_data(disk, base_lba + block_num - 1),
                             FALSE)]]

\* Write(10) decoding its LBA from command bytes 2..5, as handle_read does
handle_write_lba_as_read(self, disk, cbw) ==
    IF ~HasCb(cbw, 8) THEN Raise(self, disk, "IndexError")
    ELSE
    LET base_lba   == Cb(cbw, 2) * 16777216 + Cb(cbw, 3) * 65536
                      + Cb(cbw, 4) * 256 + Cb(cbw, 5)
        num_blocks == Cb(cbw, 7) * 256 + Cb(cbw, 8)
    IN  Return([self EXCEPT !.write_cbw = Some(cbw),
                            !.write_base_lba = base_lba,
                            !.write_length = num_blocks * disk.block_size,
                            !.is_write_in_progress = TRUE],
               disk, STATUS_INCOMPLETE, None)

handle_write(self, disk, cbw) ==
    IF ~HasCb(cbw, 8) THEN Raise(self, disk, "IndexError")
    ELSE
    LET base_lba   == Cb(cbw, 1) * 16777216 + Cb(cbw, 2) * 65536
                      + Cb(cbw, 3) * 256 + Cb(cbw, 4)
        num_blocks == Cb(cbw, 7) * 256 + Cb(cbw, 8)
    IN  Return([self EXCEPT !.write_cbw = Some(cbw),
                            !.write_base_lba = base_lba,
                            !.write_length = num_blocks * disk.block_size,
                            !.is_write_in_progress = TRUE],
               disk, STATUS_INCOMPLETE, None)

\* continue_write(self, cbw) appends the name "data" to self.write_data; the
\* function has no parameter or local of that name and the module defines no
\* global "data", so the statement raises NameError before anything is
\* assigned, and the rest of the function is never reached.
continue_write(self, disk, cbw) ==
    Raise(self, disk, "NameError")

\* the dispatcher keeping every CBW it dispatches as the write's CBW
handle_scsi_command_saving_cbw(self, disk, cbw) ==
    IF ~HasCb(cbw, 0) THEN Raise(self, disk, "IndexError")
    ELSE
    LET opcode == Cb(cbw, 0)
        saved  == [self EXCEPT !.write_cbw = Some(cbw)]
    IN  IF opcode \in DOMAIN commands
        THEN CASE commands[opcode] = "handle_ignored_event" ->
                      handle_ignored_event(saved, disk, cbw)
               [] commands[opcode] = "handle_sense" ->
                      handle_sense(saved, disk, cbw)
               [] commands[opcode] = "handle_inquiry" ->
                      handle_inquiry(saved, disk, cbw)
               [] commands[opcode] = "handle_mode_sense" ->
                      handle_mode_sense(saved, disk, cbw)
               [] commands[opcode] = "handle_get_format_capacity" ->
                      handle_get_format_capacity(saved, disk, cbw)
               [] commands[opcode] = "handle_get_read_capacity" ->
                      handle_get_read_capacity(saved, disk, cbw)
               [] commands[opcode] = "handle_read" ->
                      handle_read(saved, disk, cbw)
               [] commands[opcode] = "handle_write" ->
                      handle_write(saved, disk, cbw)
        ELSE handle_unknown_command(saved, disk, cbw)

handle_scsi_command(self, disk, cbw) ==
    IF ~HasCb(cbw, 0) THEN Raise(self, disk, "IndexError")
    ELSE
    LET opcode == Cb(cbw, 0)
    IN  IF opcode \in DOMAIN commands
        THEN CASE commands[opcode] = "handle_ignored_event" ->
                      handle_ignored_event(self, disk, cbw)
               [] commands[opcode] = "handle_sense" ->
                      handle_sense(self, disk, cbw)
               [] commands[opcode] = "handle_inquiry" ->
                      handle_inquiry(self, disk, cbw)
               [] commands[opcode] = "handle_mode_sense" ->
                      handle_mode_sense(self, disk, cbw)
               [] commands[opcode] = "handle_get_format_capacity" ->
                      handle_get_format_capacity(self, disk, cbw)
               [] commands[opcode] = "handle_get_read_capacity" ->
                      handle_get_read_capacity(self, disk, cbw)
               [] commands[opcode] = "handle_read" ->
                      handle_read(self, disk, cbw)
               [] commands[opcode] = "handle_write" ->
                      handle_write(self, disk, cbw)
        ELSE handle_unknown_command(self, disk, cbw)

\* the CSW with the tag's bytes in reverse order
csw_bytes_tag_reversed(cbw, status) ==
    <<Ord("U"), Ord("S"), Ord("B"), Ord("S"),
      cbw.tag[4], cbw.tag[3], cbw.tag[2], cbw.tag[1],
      0, 0, 0, 0,
      status>>

\* the 13 bytes built at the end of handle_data_available
csw_bytes(cbw, status) ==
    <<Ord("U"), Ord("S"), Ord("B"), Ord("S"),
      cbw.tag[1], cbw.tag[2], cbw.tag[3], cbw.tag[4],
      0, 0, 0, 0,
      status>>

\* the CSW sent ahead of the response
transmit_csw_first(cbw, status, response) ==
    <<Send("csw", csw_bytes(cbw, status), FALSE)>>
    \o (IF Truthy(response) THEN <<Send("response", response[1], TRUE)>> ELSE <<>>)

\* the end of handle_data_available: the response, if any, and then the CSW
transmit(cbw, status, response) ==
    (IF Truthy(response) THEN <<Send("response", response[1], TRUE)>> ELSE <<>>)
    \o <<Send("csw", csw_bytes(cbw, status), FALSE)>>

\* handle_data_available appending every delivery to write_data before it
\* looks at is_write_in_progress
handle_data_available_buffering(self, disk, data) ==
    LET buffering == [self EXCEPT !.write_data = @ \o data]
        parsed == CommandBlockWrapper(data)
        cbw    == parsed.cbw
        r      == IF buffering.is_write_in_progress
                  THEN continue_write(buffering, disk, cbw)
                  ELSE handle_scsi_command(buffering, disk, cbw)
    IN  IF parsed.raised # "none"
        THEN [Raise(buffering, disk, parsed.raised) EXCEPT !.status = None]
             @@ [cbw |-> None]
        ELSE IF r.raised # "none"
        THEN [r EXCEPT !.status = None] @@ [cbw |-> Some(cbw)]
        ELSE IF r.status = STATUS_INCOMPLETE
        THEN [r EXCEPT !.status = Some(r.status)] @@ [cbw |-> Some(cbw)]
        ELSE [r EXCEPT !.status = Some(r.status),
                       !.sent = r.sent \o transmit(cbw, r.status, r.response)]
             @@ [cbw |-> Some(cbw)]

\* handle_data_available: the CBW is parsed from the delivery before the
\* write-in-progress test, and the CSW is built from that parsed CBW.
handle_data_available(self, disk, data) ==
    LET parsed == CommandBlockWrapper(data)
        cbw    == parsed.cbw
        r      == IF self.is_write_in_progress
                  THEN continue_write(self, disk, cbw)
                  ELSE handle_scsi_command(self, disk, cbw)
    IN  IF parsed.raised # "none"
        THEN [Raise(self, disk, parsed.raised) EXCEPT !.status = None]
             @@ [cbw |-> None]
        ELSE IF r.raised # "none"
        THEN [r EXCEPT !.status = None] @@ [cbw |-> Some(cbw)]
        ELSE IF r.status = STATUS_INCOMPLETE
        THEN [r EXCEPT !.status = Some(r.status)] @@ [cbw |-> Some(cbw)]
        ELSE [r EXCEPT !.status = Some(r.status),
                       !.sent = r.sent \o transmit(cbw, r.status, r.response)]
             @@ [cbw |-> Some(cbw)]

-----------------------------------------------------------------------------
(* USBMassStorageClass and USBMassStorageDevice *)

\* handle_bulk_only_mass_storage_reset_request: the control message it sends
handle_bulk_only_mass_storage_reset_request == <<>>

\* handle_get_max_lun_request: the control message it sends
handle_get_max_lun_request == <<0>>

\* USBMassStorageDevice.disconnect
disconnect(disk) == close(disk)

-----------------------------------------------------------------------------
(* Bounds of the model and the host's inputs *)

\* largest block count of a Read(10) or Write(10) command
MaxBlocks == 3

\* the sector size USBMassStorageDevice gives its DiskImage
BlockSize == 512

\* sizes of the image file: less than a sector, three sectors and a partial
\* one, 0x010203 sectors and a partial one, and 2^31 - 1 bytes
DiskSizes == {511, 1636, 33818119, 2147483647}

Tags == {<<1, 2, 3, 4>>, <<222, 173, 190, 239>>}

\* little-endian and big-endian encodings, as the host writes them
LE32(n) == <<n % 256, (n \div 256) % 256, (n \div 65536) % 256, (n \div 16777216) % 256>>

BE32(n) == <<(n \div 16777216) % 256, (n \div 65536) % 256, (n \div 256) % 256, n % 256>>

BE16(n) == <<(n \div 256) % 256, n % 256>>

\* a command block padded with zeros to the 16 bytes of a 31-byte CBW
Pad16(cb) == cb \o Repeat(0, 16 - Len(cb))

\* The CBW byte layout: signature "USBC", tag at 4..7, length LE32 at 8..11,
\* flags at 12, lun at 13, cb_length at 14, command from 15.
BuildCBW(f) ==
    <<Ord("U"), Ord("S"), Ord("B"), Ord("C")>> \o f.tag
    \o LE32(f.data_transfer_length) \o <<f.flags, f.lun, f.cb_length>> \o f.cb

Fields(tag, dtl, flags, lun, cb_length, cb) ==
    [tag |-> tag, data_transfer_length |-> dtl, flags |-> flags, lun |-> lun,
     cb_length |-> cb_length, cb |-> cb]

\* a CBW as a host sends it for a command block cb of at most 16 bytes
Command(tag, dtl, flags, cb) == Fields(tag, dtl, flags, 0, Len(cb), Pad16(cb))

\* commands without operands: Test Unit Ready, Request Sense, Prevent/Allow
\* Removal, Get Format Capacity, Get Read Capacity, Synchronize Cache
PlainCommands ==
    {Command(tag, 0, 128, <<op>>) : tag \in Tags, op \in {0, 3, 30, 35, 37, 54}}

InquiryCommands ==
    {Command(<<1, 2, 3, 4>>, dtl, 128, <<18, 0, 0, 0, 36, 0>>) :
        dtl \in {0, 5, 35, 36, 37, 96, 300}}

ModeSenseCommands ==
    {Command(<<1, 2, 3, 4>>, 192, 128, <<op, 0, pc>>) :
        op \in {26, 90}, pc \in {0, 8, 62, 63, 64, 127, 255}}

ReadCommands ==
    {Command(<<1, 2, 3, 4>>, n * BlockSize, 128, <<40, 0>> \o BE32(lba) \o <<0>> \o BE16(n)) :
        lba \in {0, 1, 2, 10, 258}, n \in 0..MaxBlocks}

WriteCommands ==
    {Command(tag, n * BlockSize, 0, <<42, fl>> \o BE32(lba) \o <<0>> \o BE16(n)) :
        tag \in Tags, fl \in {0}, lba \in {5, 258}, n \in 0..MaxBlocks}

\* Write(10) commands with every byte of the fields handle_write decodes set
RawWriteCommands ==
    {Command(<<1, 2, 3, 4>>, 512, 0, cb) :
        cb \in {<<42, 1, 2, 3, 4, 9, 0, 1, 2>>, <<42, 0, 0, 7, 0, 9, 9, 0, 1>>}}

UnknownCommands ==
    {Command(tag, dtl, 128, <<op, 9, 9>>) :
        tag \in Tags, op \in {1, 43, 255}, dtl \in {0, 1, 300}}

\* CBWs that vary every field of the envelope, with command blocks shorter
\* and longer than cb_length says
EnvelopeCommands ==
    {Fields(tag, dtl, flags, lun, cb_length, cb) :
        tag \in Tags, dtl \in {0, 16909060, 2147483647}, flags \in {0, 128, 255},
        lun \in {0, 15}, cb_length \in {6},
        cb \in {Pad16(<<0>>), <<30, 1, 2, 3, 4, 5, 6, 7, 8, 9, 10, 11, 12, 13, 14, 15, 16, 17, 18, 19>>}}
    \cup {Fields(<<1, 2, 3, 4>>, 0, 0, 5, cb_length, <<54, 0, 0>>) : cb_length \in {0, 3, 31}}

CBWs ==
    PlainCommands \cup InquiryCommands \cup ModeSenseCommands \cup ReadCommands
    \cup WriteCommands \cup RawWriteCommands \cup UnknownCommands
    \cup EnvelopeCommands

\* a delivery cut short: the first k bytes of a CBW
Truncated ==
    {SubSeq(BuildCBW(f), 1, k) :
        f \in {Command(<<1, 2, 3, 4>>, 36, 128, <<18, 0, 0, 0, 36, 0>>),
               Command(<<1, 2, 3, 4>>, 192, 128, <<26, 0, 63>>),
               Command(<<1, 2, 3, 4>>, 512, 128, <<40, 0, 0, 0, 0, 1, 0, 0, 1>>),
               Command(<<1, 2, 3, 4>>, 512, 0, <<42, 0, 0, 0, 0, 5, 0, 0, 1>>),
               Command(<<1, 2, 3, 4>>, 4, 128, <<255>>)},
        k \in {0, 8, 14, 15, 16, 17, 18, 20, 21, 23, 24}}

\* write payload: n bytes holding little-endian 32-bit words of value v
Payload(n, v) == [i \in 1..n |-> IF i % 4 = 1 THEN v ELSE 0]

Payloads == {Payload(n, v) : n \in {4, 200, 312, 512}, v \in {0, 165}}

\* what the host may deliver on the bulk-OUT endpoint: the bytes, and the
\* fields they were built from when they are a CBW
Deliveries ==
    {[fields |-> Some(f), bytes |-> BuildCBW(f)] : f \in CBWs}
    \cup {[fields |-> None, bytes |-> b] : b \in Truncated \cup Payloads}

-----------------------------------------------------------------------------
(* The state machine *)

\* the write-session fields of the interface
Self ==
    [is_write_in_progress |-> is_write_in_progress, write_cbw |-> write_cbw,
     write_base_lba |-> write_base_lba, write_length |-> write_length,
     write_data |-> write_data]

\* USBMassStorageDevice.__init__ and USBMassStorageInterface.__init__
Init ==
    /\ is_write_in_progress = FALSE
    /\ write_cbw = None
    /\ write_base_lba = 0
    /\ write_length = 0
    /\ write_data = <<>>
    /\ \E st_size \in DiskSizes : disk_image = DiskImage(st_size, BlockSize)
    /\ last_op = "init"
    /\ host_fields = None
    /\ data_in = <<>>
    /\ was_writing = FALSE
    /\ cbw_in = None
    /\ status_out = None
    /\ to_host = <<>>
    /\ sector_reads = <<>>
    /\ sector_writes = <<>>
    /\ flushed = FALSE
    /\ raised = "none"
    /\ control_sent = None

\* the process runs: an uncaught exception ends it, a disconnect detaches it
Running == raised = "none" /\ ~disk_image.closed

\* the transport calls handle_data_available with one bulk-OUT delivery
Deliver ==
    /\ Running
    /\ \E d \in Deliveries :
        \E r \in {handle_data_available(Self, disk_image, d.bytes)} :
            /\ is_write_in_progress' = r.self.is_write_in_progress
            /\ write_cbw' = r.self.write_cbw
            /\ write_base_lba' = r.self.write_base_lba
            /\ write_length' = r.self.write_length
            /\ write_data' = r.self.write_data
            /\ disk_image' = r.disk
            /\ last_op' = "handle_data_available"
            /\ host_fields' = d.fields
            /\ data_in' = d.bytes
            /\ was_writing' = is_write_in_progress
            /\ cbw_in' = r.cbw
            /\ status_out' = r.status
            /\ to_host' = r.sent
            /\ sector_reads' = r.reads
            /\ sector_writes' = r.writes
            /\ flushed' = r.flushed
            /\ raised' = r.raised
            /\ control_sent' = None

\* what a call that is no bulk-OUT delivery leaves in the record of the last call
NoDelivery ==
    /\ host_fields' = None
    /\ data_in' = <<>>
    /\ was_writing' = is_write_in_progress
    /\ cbw_in' = None
    /\ status_out' = None
    /\ to_host' = <<>>
    /\ sector_reads' = <<>>
    /\ sector_writes' = <<>>

\* class request 0xFF: the handler sends an empty control message and leaves
\* the interface alone
Reset ==
    /\ Running
    /\ last_op' = "handle_bulk_only_mass_storage_reset_request"
    /\ control_sent' = Some(handle_bulk_only_mass_storage_reset_request)
    /\ flushed' = FALSE
    /\ NoDelivery
    /\ UNCHANGED <<is_write_in_progress, write_cbw, write_base_lba,
                   write_length, write_data, disk_image, raised>>

\* class request 0xFE
GetMaxLun ==
    /\ Running
    /\ last_op' = "handle_get_max_lun_request"
    /\ control_sent' = Some(handle_get_max_lun_request)
    /\ flushed' = FALSE
    /\ NoDelivery
    /\ UNCHANGED <<is_write_in_progress, write_cbw, write_base_lba,
                   write_length, write_data, disk_image, raised>>

\* USBMassStorageDevice.disconnect
Disconnect ==
    /\ Running
    /\ disk_image' = disconnect(disk_image)
    /\ flushed' = TRUE
    /\ last_op' = "disconnect"
    /\ control_sent' = None
    /\ NoDelivery
    /\ UNCHANGED <<is_write_in_progress, write_cbw, write_base_lba,
                   write_length, write_data, raised>>

Next == Deliver \/ Reset \/ GetMaxLun \/ Disconnect

Spec == Init /\ [][Next]_vars

-----------------------------------------------------------------------------
(* The DiskImage on its own: put_sector_data called directly *)

\* addresses given to put_sector_data
PutAddresses == {0, 3, 5}

\* n bytes of data that differ from place to place
PutBytes(n, v) == [i \in 1..n |-> (v + 3 * i) % 256]

\* data given to put_sector_data: nothing, less than a sector, a sector, more
PutData == {PutBytes(n, v) : n \in {0, 100, 512, 600}, v \in {1, 2}}

\* a caller of the DiskImage calls put_sector_data(address, data)
PutSectorData ==
    /\ Running
    /\ \E address \in PutAddresses, data \in PutData :
        \E r \in {put_sector_data(disk_image, address, data)} :
            /\ disk_image' = r.disk
            /\ raised' = r.raised
            /\ flushed' = r.flushed
            /\ sector_writes' = <<[address |-> address, data |-> data]>>
    /\ last_op' = "put_sector_data"
    /\ control_sent' = None
    /\ host_fields' = None
    /\ data_in' = <<>>
    /\ was_writing' = is_write_in_progress
    /\ cbw_in' = None
    /\ status_out' = None
    /\ to_host' = <<>>
    /\ sector_reads' = <<>>
    /\ UNCHANGED <<is_write_in_progress, write_cbw, write_base_lba,
                   write_length, write_data>>

NextDisk == PutSectorData

DiskSpec == Init /\ [][NextDisk]_vars

-----------------------------------------------------------------------------
(* Vocabulary of the properties *)

\* the last call was handle_data_available
Delivered == last_op = "handle_data_available"

\* the last call was handle_data_available on an IDLE session
DeliveredIdle == Delivered /\ ~was_writing

\* this step is a call of handle_data_available
DeliverStep == last_op' = "handle_data_available" /\ vars' # vars

\* the opcode of a delivery: the byte at offset 15
Opcode(b) == b[16]

\* the tag of a delivery: the bytes at offsets 4..7
WireTag(b) == SubSeq(b, 5, 8)

\* the data_transfer_length of a delivery: little-endian at offsets 8..11
WireLength(b) == b[9] + 256 * (b[10] + 256 * (b[11] + 256 * b[12]))

\* the Read(10) fields of a delivery: LBA big-endian at command bytes 2..5,
\* block count big-endian at command bytes 7..8
ReadLBA(b) == ((b[18] * 256 + b[19]) * 256 + b[20]) * 256 + b[21]

ReadCount(b) == b[23] * 256 + b[24]

\* the positions of the CSWs among the sends of the last call
CSWs == {i \in DOMAIN to_host : to_host[i].kind = "csw"}

\* the 13 bytes of a CSW: "USBS", the tag, residue 0, the status
WireCSW(tag, status) == <<85, 83, 66, 83>> \o tag \o <<0, 0, 0, 0>> \o <<status>>

\* the last call sent exactly one CSW, for the delivery's tag, with a status
\* byte of OKAY or FAILURE
OneCSW ==
    /\ Cardinality(CSWs) = 1
    /\ \A i \in CSWs :
        /\ Len(to_host[i].data) = 13
        /\ \E status \in {0, 2} : to_host[i].data = WireCSW(WireTag(data_in), status)

\* every byte the last call sent that is not the CSW, in order
PayloadSent ==
    LET RECURSIVE Cat(_)
        Cat(i) == IF i > Len(to_host) THEN <<>>
                  ELSE (IF to_host[i].kind = "csw" THEN <<>> ELSE to_host[i].data)
                       \o Cat(i + 1)
    IN  Cat(1)

\* the sector at an address, as the image file holds it
Sector(address) ==
    [i \in 1..BlockSize |-> ImageByte(disk_image, address * BlockSize + i - 1)]

-----------------------------------------------------------------------------
(* C1 *)

\* what C1 says of a delivery to an IDLE session
CswPerDelivery ==
    IF Opcode(data_in) # 42
    THEN raised = "none" /\ OneCSW
    ELSE CSWs = {}

\* C1 as stated: every delivery to an IDLE session that has an opcode other
\* than Write(10) emits exactly one 13-byte CSW "USBS" + tag + residue 0 +
\* status whose tag is bytes 4..7 of the delivery, and a delivery with opcode
\* 0x2A emits no CSW.
C1_EveryDelivery ==
    (DeliveredIdle /\ Len(data_in) >= 16) => CswPerDelivery

\* C1, amended: the same for every delivery of at least 24 bytes (15 bytes of
\* envelope and 9 command bytes, as every 31-byte CBW has).
C1_EveryFullDelivery ==
    (DeliveredIdle /\ Len(data_in) >= 24) => CswPerDelivery

\* a Request Sense CBW with tag de ad be ef was answered with its CSW
C1_Witness ==
    /\ DeliveredIdle
    /\ Len(data_in) = 31
    /\ Opcode(data_in) = 3
    /\ WireTag(data_in) = <<222, 173, 190, 239>>
    /\ Len(to_host) = 2
    /\ to_host[2].data = WireCSW(<<222, 173, 190, 239>>, 0)

-----------------------------------------------------------------------------
(* C2 *)

\* C2: a chunk delivered to a Write(10) of n >= 1 blocks that leaves the
\* accumulated length below the expected length emits no CSW, and the chunk
\* that reaches the expected length emits exactly one CSW with status OKAY and
\* makes exactly one put_sector_data call, at the write's LBA with all the
\* accumulated data.
C2_WriteCompletes ==
    [][(is_write_in_progress /\ DeliverStep /\ write_length >= BlockSize) =>
        IF Len(write_data) + Len(data_in') < write_length
        THEN CSWs' = {}
        ELSE /\ Cardinality(CSWs') = 1
             /\ \A i \in CSWs' : to_host'[i].data[13] = STATUS_OKAY
             /\ sector_writes' =
                    <<[address |-> write_base_lba, data |-> write_data \o data_in']>>
      ]_vars

-----------------------------------------------------------------------------
(* C3 *)

\* C3: the chunk that completes a Write(10) is answered with a CSW carrying
\* the tag of the CBW that started the write, whatever the chunk holds.
C3_WriteTag ==
    [][(is_write_in_progress /\ DeliverStep
        /\ Len(write_data) + Len(data_in') >= write_length) =>
        /\ CSWs' # {}
        /\ \A i \in CSWs' : SubSeq(to_host'[i].data, 5, 8) = write_cbw[1].tag
      ]_vars

-----------------------------------------------------------------------------
(* C4 *)

\* C4: a CBW whose opcode is not in the dispatch table, with
\* data_transfer_length N, is answered with N zero bytes (nothing when N = 0)
\* and then a CSW with status FAILURE; the session stays IDLE and the backing
\* store is neither read nor written.
C4_UnknownOpcode ==
    [][(~is_write_in_progress /\ DeliverStep /\ Len(data_in') >= 16
        /\ Opcode(data_in') \notin DOMAIN commands) =>
        LET N == WireLength(data_in')
        IN  /\ raised' = "none"
            /\ to_host' =
                  (IF N > 0 THEN <<Send("response", [i \in 1..N |-> 0], TRUE)>>
                   ELSE <<>>)
                  \o <<Send("csw", WireCSW(WireTag(data_in'), 2), FALSE)>>
            /\ ~is_write_in_progress'
            /\ sector_reads' = <<>>
            /\ sector_writes' = <<>>
            /\ disk_image' = disk_image
      ]_vars

\* opcode 0xFF with data_transfer_length 300 was answered with 300 zero bytes
\* and a FAILURE CSW
C4_Witness ==
    /\ DeliveredIdle
    /\ Len(data_in) = 31
    /\ Opcode(data_in) = 255
    /\ WireLength(data_in) = 300
    /\ Len(to_host) = 2
    /\ Len(to_host[1].data) = 300
    /\ to_host[2].data[13] = 2

-----------------------------------------------------------------------------
(* C5 *)

\* C5: whatever a call sends to the host, the CSW is its last send and every
\* response payload and streamed sector comes before it.
C5_CswLast ==
    (Delivered /\ to_host # <<>>) =>
        /\ to_host[Len(to_host)].kind = "csw"
        /\ \A i \in 1..(Len(to_host) - 1) : to_host[i].kind # "csw"

\* a FAILURE result with a payload: the payload went first, the CSW last
C5_Witness ==
    /\ Delivered
    /\ status_out = Some(STATUS_FAILURE)
    /\ Len(to_host) = 2
    /\ to_host[1].kind = "response"
    /\ to_host[2].kind = "csw"

-----------------------------------------------------------------------------
(* C6 *)

\* C6: Read(10) of n blocks at LBA b, all inside the backing store, reads the
\* sectors b, b+1, ..., b+n-1 in that order, sends each 512-byte sector in that
\* order, and returns OKAY with no further payload: after the sectors only the
\* CSW is sent (with n = 0, the CSW alone).
C6_Read ==
    (DeliveredIdle /\ Len(data_in) >= 24 /\ Opcode(data_in) = 40
     /\ (\/ ReadCount(data_in) = 0
         \/ (ReadLBA(data_in) + ReadCount(data_in)) * BlockSize <= disk_image.size)) =>
        LET b == ReadLBA(data_in)
            n == ReadCount(data_in)
        IN  /\ raised = "none"
            /\ status_out = Some(STATUS_OKAY)
            /\ sector_reads = [k \in 1..n |-> b + k - 1]
            /\ Len(to_host) = n + 1
            /\ \A k \in 1..n :
                /\ to_host[k].kind = "sector"
                /\ Len(to_host[k].data) = 512
                /\ to_host[k].data = Sector(b + k - 1)
            /\ to_host[n + 1] = Send("csw", WireCSW(WireTag(data_in), 0), FALSE)

\* Read(10) with LBA 10 and count 3 read the sectors 10, 11, 12
C6_Witness ==
    /\ DeliveredIdle
    /\ Len(data_in) = 31
    /\ Opcode(data_in) = 40
    /\ sector_reads = <<10, 11, 12>>
    /\ Len(to_host) = 4

-----------------------------------------------------------------------------
(* C7 *)

\* the 36 bytes of fixed Inquiry content
InquiryContent ==
    <<0, 0, 5, 2, 20, 0, 0, 0,
      71, 111, 111, 100, 70, 69, 84, 32,
      71, 111, 111, 100, 70, 69, 84, 32,
      32, 32, 32, 32, 32, 32, 32, 32,
      48, 46, 48, 49>>

\* C7: the payload sent for an Inquiry is exactly data_transfer_length bytes
\* long, also when that is less than 36: the fixed content first, then zero
\* bytes up to that length.
C7_InquiryLength ==
    (DeliveredIdle /\ Len(data_in) >= 21 /\ Opcode(data_in) = 18) =>
        LET N == WireLength(data_in)
        IN  /\ Len(PayloadSent) = N
            /\ \A i \in 1..N :
                PayloadSent[i] = IF i <= 36 THEN InquiryContent[i] ELSE 0

-----------------------------------------------------------------------------
(* C8 *)

\* C8: the Read Capacity (10) response is 8 bytes: floor(total_size/512) - 1
\* as a big-endian 32-bit number (ff ff ff ff for -1), then 00 00 02 00; the
\* status is OKAY.
C8_ReadCapacity ==
    (DeliveredIdle /\ Len(data_in) >= 16 /\ Opcode(data_in) = 37) =>
        LET last == (disk_image.size \div 512) - 1
        IN  /\ Len(to_host) = 2
            /\ to_host[1].kind = "response"
            /\ Len(to_host[1].data) = 8
            /\ LET r == to_host[1].data
               IN  /\ IF last >= 0
                      THEN ((r[1] * 256 + r[2]) * 256 + r[3]) * 256 + r[4] = last
                      ELSE SubSeq(r, 1, 4) = <<255, 255, 255, 255>>
                   /\ SubSeq(r, 5, 8) = <<0, 0, 2, 0>>
            /\ to_host[2] = Send("csw", WireCSW(WireTag(data_in), 0), FALSE)

\* an image of 0x010203 sectors and 7 bytes reported last LBA 00 01 02 02
C8_Witness ==
    /\ DeliveredIdle
    /\ Len(data_in) = 31
    /\ Opcode(data_in) = 37
    /\ disk_image.size = 33818119
    /\ Len(to_host) = 2
    /\ to_host[1].data = <<0, 1, 2, 2, 0, 0, 2, 0>>

-----------------------------------------------------------------------------
(* C9 *)

\* C9: parsing the bytes built from a tag, a data_transfer_length, a flags
\* byte, a lun and a command byte sequence gives back those values, and the
\* command is every byte from offset 15, whatever cb_length says.
C9_RoundTrip ==
    (Delivered /\ host_fields # None) =>
        /\ cbw_in # None
        /\ LET f == host_fields[1]
               c == cbw_in[1]
           IN  /\ c.tag = f.tag
               /\ c.data_transfer_length = f.data_transfer_length
               /\ c.flags = f.flags
               /\ c.lun = f.lun
               /\ c.cb = f.cb
               /\ c.cb = SubSeq(data_in, 16, Len(data_in))

\* a CBW with a four-byte length, flags ff, lun 15 and 20 command bytes under
\* a cb_length of 6 was parsed
C9_Witness ==
    /\ Delivered
    /\ host_fields # None
    /\ cbw_in # None
    /\ host_fields[1].data_transfer_length = 16909060
    /\ host_fields[1].flags = 255
    /\ host_fields[1].lun = 15
    /\ host_fields[1].cb_length = 6
    /\ Len(cbw_in[1].cb) = 20

-----------------------------------------------------------------------------
(* C10 *)

\* C10: Mode Sense (0x1A and 0x5A) answers page 0x3F (the low 6 bits of
\* command byte 2) with 07 00 00 00 00 00 00 1c and every other page with
\* 07 00 00 00 00 00 00 00, with status OKAY.
C10_ModeSense ==
    (DeliveredIdle /\ Len(data_in) >= 18 /\ Opcode(data_in) \in {26, 90}) =>
        /\ Len(to_host) = 2
        /\ to_host[1].kind = "response"
        /\ to_host[1].data =
              <<7, 0, 0, 0, 0, 0, 0, IF data_in[18] % 64 = 63 THEN 28 ELSE 0>>
        /\ to_host[2] = Send("csw", WireCSW(WireTag(data_in), 0), FALSE)

\* Mode Sense (10) with command byte 2 = 0x7f (page 0x3f) got the 1c header
C10_Witness ==
    /\ DeliveredIdle
    /\ Len(data_in) = 31
    /\ Opcode(data_in) = 90
    /\ data_in[18] = 127
    /\ Len(to_host) = 2
    /\ to_host[1].data = <<7, 0, 0, 0, 0, 0, 0, 28>>

-----------------------------------------------------------------------------
(* C11 *)

\* C11: a delivery of any length >= 1 to an ACCUMULATING session goes to the
\* write continuation without being parsed as a CBW: it does not fail, no
\* SCSI handler runs (nothing is read, no response payload is sent), and the
\* buffer grows by exactly the delivered bytes (until the commit empties it).
C11_ChunkAccepted ==
    [][(is_write_in_progress /\ DeliverStep /\ Len(data_in') >= 1) =>
        /\ raised' = "none"
        /\ sector_reads' = <<>>
        /\ \A i \in DOMAIN to_host' : to_host'[i].kind = "csw"
        /\ \/ write_data' = write_data \o data_in'
           \/ /\ Len(write_data) + Len(data_in') >= write_length
              /\ write_data' = <<>>
      ]_vars

-----------------------------------------------------------------------------
(* C12 *)

\* C12: once a delivery has been processed the session is never left
\* ACCUMULATING with a buffer that has reached the expected length, a
\* Write(10) of 0 blocks (expected length 0) included.
C12_NoCompleteBufferPending ==
    Delivered => ~(is_write_in_progress /\ Len(write_data) >= write_length)

-----------------------------------------------------------------------------
(* C13 *)

\* the Write(10) fields of a delivery as handle_write reads them: LBA
\* big-endian at command bytes 1..4, block count big-endian at command bytes 7..8
WriteLBA(b) == ((b[17] * 256 + b[18]) * 256 + b[19]) * 256 + b[20]

WriteCount(b) == b[23] * 256 + b[24]

\* C13: a Write(10) dispatched on an IDLE session leaves the session
\* ACCUMULATING with the target LBA of command bytes 1..4, the expected length
\* (command bytes 7..8) * 512, the parsed CBW saved and the buffer empty; it
\* sends nothing to the host and neither reads nor changes the backing store.
C13_WriteDispatch ==
    [][(~is_write_in_progress /\ DeliverStep /\ Len(data_in') >= 24
        /\ Opcode(data_in') = 42) =>
        /\ raised' = "none"
        /\ is_write_in_progress'
        /\ write_base_lba' = WriteLBA(data_in')
        /\ write_length' = WriteCount(data_in') * 512
        /\ write_cbw' # None
        /\ write_cbw'[1].tag = WireTag(data_in')
        /\ write_cbw'[1].cb = SubSeq(data_in', 16, Len(data_in'))
        /\ write_cbw' = cbw_in'
        /\ write_data' = <<>>
        /\ to_host' = <<>>
        /\ sector_reads' = <<>>
        /\ sector_writes' = <<>>
        /\ disk_image' = disk_image
      ]_vars

\* a Write(10) with command bytes 1..4 = 01 02 03 04 and 7..8 = 01 02 was
\* dispatched: LBA 0x01020304, 258 blocks expected
C13_Witness ==
    /\ DeliveredIdle
    /\ Len(data_in) = 31
    /\ Opcode(data_in) = 42
    /\ is_write_in_progress
    /\ write_base_lba = 16909060
    /\ write_length = 132096
    /\ write_data = <<>>
    /\ to_host = <<>>

-----------------------------------------------------------------------------
(* C14 *)

\* C14: the chunk that completes a Write(10) of n >= 1 blocks at LBA b makes a
\* single put_sector_data call, which puts the first 512 bytes of the
\* accumulated buffer in the sector at LBA b and leaves every other byte of
\* the backing store as it was.
C14_CommitOneSector ==
    [][(is_write_in_progress /\ DeliverStep /\ write_length >= BlockSize
        /\ Len(write_data) + Len(data_in') >= write_length
        /\ (write_base_lba + 1) * BlockSize <= disk_image.size) =>
        LET buffer == write_data \o data_in'
            lo     == write_base_lba * BlockSize
        IN  /\ Len(sector_writes') = 1
            /\ sector_writes'[1].address = write_base_lba
            /\ flushed'
            /\ \A i \in 1..BlockSize :
                ImageByte(disk_image', lo + i - 1) = buffer[i]
            /\ \A off \in (DOMAIN disk_image.image) \cup (DOMAIN disk_image'.image) :
                (off < lo \/ off >= lo + BlockSize) =>
                    ImageByte(disk_image', off) = ImageByte(disk_image, off)
      ]_vars

-----------------------------------------------------------------------------
(* C15 *)

\* the last call was put_sector_data
PutCalled == last_op = "put_sector_data"

\* C15: put_sector_data(lba, data) succeeds whatever the length of data: the
\* sector at offset lba * 512 then holds the first 512 bytes of data, data
\* shorter than 512 bytes being filled up to 512 (with zero bytes), and the
\* image has been flushed.
C15_PutAnyLength ==
    PutCalled =>
        LET address == sector_writes[1].address
            data    == sector_writes[1].data
        IN  /\ raised = "none"
            /\ flushed
            /\ \A i \in 1..BlockSize :
                ImageByte(disk_image, address * BlockSize + i - 1)
                    = IF i <= Len(data) THEN data[i] ELSE 0

\* what holds of the code: data of 512 bytes or more, given for a sector that
\* lies inside the image, is cut to its first 512 bytes, stored at
\* lba * 512 and flushed; shorter data raises IndexError and changes nothing.
C15_PutWholeSector ==
    PutCalled =>
        LET address == sector_writes[1].address
            data    == sector_writes[1].data
        IN  /\ (Len(data) >= BlockSize
                /\ (address + 1) * BlockSize <= disk_image.size) =>
                    /\ raised = "none"
                    /\ flushed
                    /\ \A i \in 1..BlockSize :
                        ImageByte(disk_image, address * BlockSize + i - 1) = data[i]
            /\ (Len(data) < BlockSize
                /\ (address + 1) * BlockSize <= disk_image.size) =>
                    raised = "IndexError" /\ ~flushed

-----------------------------------------------------------------------------
(* C16 *)

\* this step is a Bulk-Only Mass Storage Reset or a disconnect
ResetOrDisconnectStep ==
    /\ last_op' \in {"handle_bulk_only_mass_storage_reset_request", "disconnect"}
    /\ vars' # vars

\* C16: a Bulk-Only Mass Storage Reset or a disconnect that comes while the
\* session is ACCUMULATING leaves it IDLE, the write-in-progress flag cleared
\* and the buffer empty; a disconnect also closes the backing store.
C16_ResetToIdle ==
    [][(is_write_in_progress /\ ResetOrDisconnectStep) =>
        /\ ~is_write_in_progress'
        /\ write_data' = <<>>
        /\ (last_op' = "disconnect" => disk_image'.closed)
      ]_vars

-----------------------------------------------------------------------------
(* C17 *)

\* this step is the commit of a write continuation: a delivery to an
\* ACCUMULATING session that brings the buffer to the expected length
CommitStep ==
    /\ is_write_in_progress
    /\ DeliverStep
    /\ Len(write_data) + Len(data_in') >= write_length

\* C17: a delivery to an IDLE session whose opcode is not Write(10), in the
\* dispatch table or not, leaves the write-in-progress flag, the saved CBW,
\* the target LBA, the expected length, the buffer and the content of the
\* backing store as they were; and the content of the backing store changes
\* in no step but the commit of a write continuation.
C17_Frame ==
    [][/\ (~is_write_in_progress /\ DeliverStep /\ Len(data_in') >= 16
           /\ Opcode(data_in') # 42) =>
              /\ UNCHANGED <<is_write_in_progress, write_cbw, write_base_lba,
                             write_length, write_data>>
              /\ disk_image'.image = disk_image.image
              /\ sector_writes' = <<>>
       /\ disk_image'.image # disk_image.image => CommitStep
      ]_vars

\* an Inquiry was answered on a session that no write has touched
C17_Witness ==
    /\ DeliveredIdle
    /\ Len(data_in) = 31
    /\ Opcode(data_in) = 18
    /\ raised = "none"
    /\ Len(to_host) = 2
    /\ ~is_write_in_progress
    /\ write_cbw = None
    /\ write_length = 0
    /\ write_data = <<>>
    /\ disk_image.image = DiskImage(disk_image.size, BlockSize).image

-----------------------------------------------------------------------------
(* C18 *)

-----------------------------------------------------------------------------
(* C19 *)

\* C19: the status byte of every CSW sent is 0x00 (OKAY) or 0x02 (FAILED),
\* never the INCOMPLETE sentinel, and it is FAILED exactly when the opcode of
\* the CBW the CSW answers is not in the dispatch table.
C19_StatusByte ==
    Delivered =>
        \A i \in CSWs :
            LET status == to_host[i].data[13]
            IN  /\ status \in {0, 2}
                /\ status # STATUS_INCOMPLETE
                /\ status_out = Some(status)
                /\ (status = 2) <=> (Opcode(data_in) \notin DOMAIN commands)

\* opcode 0x2b, which is not registered, was answered with a FAILED CSW
C19_Witness ==
    /\ DeliveredIdle
    /\ Len(data_in) = 31
    /\ Opcode(data_in) = 43
    /\ CSWs # {}
    /\ \A i \in CSWs : to_host[i].data[13] = 2

====
